---- MODULE Spec2Model ----
(***************************************************************************)
(* Model of src/main.rs: the Timer adapter (Timer::new, CountDown::start,  *)
(* CountDown::wait, Cancel::cancel) and the control flow of main.          *)
(*                                                                         *)
(* Wide integers (u32, u64, u128) are little-endian sequences of bytes,    *)
(* so that the 128-bit microsecond count and its cast to u32 are computed  *)
(* at their real width.                                                    *)
(***************************************************************************)
EXTENDS Naturals, Sequences, FiniteSets

\* Longest sequence of calls the client of the Timer makes.
MaxCalls == 3

\* Number of most recent display calls main's history keeps.
Window == 5

VARIABLES
    timer,   \* the Timer struct: duration, periodic, delay
    calls,   \* history of the trait calls made on the timer
    pc,      \* position of main
    setup,   \* history of main's one-time setup steps with their outcomes
    issued   \* the last Window display calls of main's loop with their results

timerVars == <<timer, calls>>
mainVars == <<pc, setup, issued>>
vars == <<timer, calls, pc, setup, issued>>

----------------------------------------------------------------------------
\* Byte arithmetic

RECURSIVE ToBytes(_, _)
\* n as w little-endian bytes (n mod 256^w)
ToBytes(n, w) ==
    IF w = 0 THEN <<>> ELSE <<n % 256>> \o ToBytes(n \div 256, w - 1)

RECURSIVE MulAdd(_, _, _)
\* x * k + c at the width of x, wrapping
MulAdd(x, k, c) ==
    IF x = <<>> THEN <<>>
    ELSE LET p == Head(x) * k + c
         IN  <<p % 256>> \o MulAdd(Tail(x), k, p \div 256)

\* `x as u128` of a u64
AsU128(x) == x \o [i \in 1..(16 - Len(x)) |-> 0]

\* `x as u32`: the low 32 bits, the rest silently dropped
AsU32(x) == SubSeq(x, 1, 4)

\* u32::MAX
U32Max == <<255, 255, 255, 255>>

IsZero(x) == \A i \in 1..Len(x) : x[i] = 0

\* x >= 2^32
ExceedsU32(x) == \E i \in 5..Len(x) : x[i] # 0

----------------------------------------------------------------------------
\* core::time::Duration as main.rs uses it

\* Duration::from_secs(secs), secs a u64
from_secs(secs) == [secs |-> secs, nanos |-> 0]

\* Duration::as_millis(): u128 (what a wait in milliseconds would request)
as_millis(d) == MulAdd(AsU128(d.secs), 1000, d.nanos \div 1000000)

\* Duration::as_micros(): u128 = secs * 1_000_000 + nanos / 1_000
as_micros(d) == MulAdd(AsU128(d.secs), 1000000, d.nanos \div 1000)

\* The seconds and the sub-second nanoseconds of the durations a client passes.
SecsValues ==
    { ToBytes(0, 8), ToBytes(1, 8), ToBytes(4294, 8),
      <<255, 255, 255, 255, 255, 255, 255, 255>> }

NanosValues == { 0, 500000000, 967295999, 967296000, 999999999 }

Durations == [secs : SecsValues, nanos : NanosValues]

----------------------------------------------------------------------------
\* Timer

\* Mutant of Timer_new: the timer is constructed armed with one second
Timer_new_armed(delay) ==
    [duration |-> from_secs(ToBytes(1, 8)), periodic |-> FALSE, delay |-> delay]

\* Timer::new(delay); the delay handle is modelled by the delay_us requests
\* it has received
Timer_new(delay) ==
    [duration |-> from_secs(ToBytes(0, 8)), periodic |-> FALSE, delay |-> delay]

\* cortex_m Delay::delay_us(us) on the owned handle
delay_us(delay, us) == Append(delay, us)

\* Mutant of Timer_start: a running count is not overwritten
Timer_start_keepfirst(self, count) ==
    IF self.duration = from_secs(ToBytes(0, 8))
    THEN [self EXCEPT !.duration = count]
    ELSE self

\* Mutant of Timer_start: a count beyond what wait can request is clamped to
\* u32::MAX microseconds
Timer_start_clamped(self, count) ==
    IF ExceedsU32(as_micros(count))
    THEN [self EXCEPT !.duration = [secs |-> ToBytes(4294, 8), nanos |-> 967295000]]
    ELSE [self EXCEPT !.duration = count]

\* CountDown::start: count.into() stored
Timer_start(self, count) == [self EXCEPT !.duration = count]

\* Mutant of Timer_wait: the delay is requested in milliseconds
Timer_wait_millis(self) ==
    [self   |-> [self EXCEPT !.delay = delay_us(@, AsU32(as_millis(self.duration)))],
     result |-> "Ok"]

\* Mutant of Timer_wait: the cast saturates at u32::MAX instead of wrapping
Timer_wait_saturating(self) ==
    [self   |-> [self EXCEPT !.delay =
                    delay_us(@, IF ExceedsU32(as_micros(self.duration))
                                THEN U32Max
                                ELSE AsU32(as_micros(self.duration)))],
     result |-> "Ok"]

\* Mutant of Timer_wait: a non-blocking wait that reports a running count
Timer_wait_nonblocking(self) ==
    IF IsZero(as_micros(self.duration))
    THEN [self |-> self, result |-> "Ok"]
    ELSE [self |-> self, result |-> "WouldBlock"]

\* CountDown::wait
Timer_wait(self) ==
    [self   |-> [self EXCEPT !.delay = delay_us(@, AsU32(as_micros(self.duration)))],
     result |-> "Ok"]

\* Mutant of Timer_cancel: cancelling clears the count
Timer_cancel_reset(self) ==
    [self |-> [self EXCEPT !.duration = from_secs(ToBytes(0, 8))], result |-> "Ok"]

\* Cancel::cancel
Timer_cancel(self) == [self |-> self, result |-> "Ok"]

\* A timer just constructed on a delay handle that has received no request,
\* and main at its entry
Init ==
    /\ timer = Timer_new(<<>>)
    /\ calls = <<>>
    /\ pc = "take_pac"
    /\ setup = <<>>
    /\ issued = <<>>

start(count) ==
    /\ Len(calls) < MaxCalls
    /\ timer' = Timer_start(timer, count)
    /\ calls' = Append(calls, [op |-> "start", arg |-> count, result |-> "Unit",
                               self |-> timer'])
    /\ UNCHANGED mainVars

wait ==
    /\ Len(calls) < MaxCalls
    /\ LET r == Timer_wait(timer)
       IN  /\ timer' = r.self
           /\ calls' = Append(calls, [op |-> "wait", arg |-> "none",
                                      result |-> r.result, self |-> r.self])
    /\ UNCHANGED mainVars

cancel ==
    /\ Len(calls) < MaxCalls
    /\ LET r == Timer_cancel(timer)
       IN  /\ timer' = r.self
           /\ calls' = Append(calls, [op |-> "cancel", arg |-> "none",
                                      result |-> r.result, self |-> r.self])
    /\ UNCHANGED mainVars

TimerNext ==
    \/ \E count \in Durations : start(count)
    \/ wait
    \/ cancel

\* The timer alone, under any client; main has not started
Spec == Init /\ [][TimerNext]_vars

----------------------------------------------------------------------------
\* main

\* The microseconds main passes to lcd.delay
LoopDelayUs == 1000000

\* What a collaborator's fallible call returns: Ok stands for Some(_) and
\* Ok(_), Err for None and Err(_)
Outcomes == {"Ok", "Err"}

\* Mutant of unwrap: the failure is dropped, as `.ok()` alone would
unwrap_ignored(result, next) == next

\* Option::unwrap and Result::unwrap on a setup step: the value, or a panic,
\* which panic_probe turns into a halt
unwrap(result, next) == IF result = "Ok" THEN next ELSE "panicked"

\* Mutant of discard: the result of a display call is unwrapped
discard_unwrapped(result, next) == IF result = "Ok" THEN next ELSE "panicked"

\* `.ok();` on a display call's result: the result is dropped
discard(result, next) == next

\* Mutant of AfterLoopStep: the display is never cleared
AfterLoopStep_noclear(at) ==
    IF at = "print" THEN "delay_after_print" ELSE "print"

\* The statement of the loop body that follows the one at `at`
AfterLoopStep(at) ==
    CASE at = "print"             -> "delay_after_print"
      [] at = "delay_after_print" -> "clear"
      [] at = "clear"             -> "delay_after_clear"
      [] at = "delay_after_clear" -> "print"

\* The history of display calls with one more call, the oldest dropped once
\* Window are kept
Push(w, e) == IF Len(w) < Window THEN Append(w, e) ELSE Append(Tail(w), e)

\* A setup step whose result is unwrapped
Fallible(step, next) ==
    /\ \E result \in Outcomes :
         /\ setup' = Append(setup, [step |-> step, result |-> result])
         /\ pc' = unwrap(result, next)
    /\ UNCHANGED <<issued, timerVars>>

\* A setup step that cannot fail
Infallible(step, next) ==
    /\ setup' = Append(setup, [step |-> step, result |-> "Ok"])
    /\ pc' = next
    /\ UNCHANGED <<issued, timerVars>>

\* A display call of the loop body, its result dropped
LoopStep(at, op, arg) ==
    /\ \E result \in Outcomes :
         /\ issued' = Push(issued, [at |-> at, op |-> op, arg |-> arg, result |-> result])
         /\ pc' = discard(result, AfterLoopStep(at))
    /\ UNCHANGED <<setup, timerVars>>

TakePeripherals ==
    /\ pc = "take_pac"
    /\ Fallible("take_pac", "take_core")

TakeCorePeripherals ==
    /\ pc = "take_core"
    /\ Fallible("take_core", "watchdog_new")

WatchdogNew ==
    /\ pc = "watchdog_new"
    /\ Infallible("watchdog_new", "sio_new")

SioNew ==
    /\ pc = "sio_new"
    /\ Infallible("sio_new", "init_clocks")

InitClocksAndPlls ==
    /\ pc = "init_clocks"
    /\ Fallible("init_clocks", "delay_new")

DelayNew ==
    /\ pc = "delay_new"
    /\ Infallible("delay_new", "timer_new")

TimerNew ==
    /\ pc = "timer_new"
    /\ Infallible("timer_new", "pins_new")

PinsNew ==
    /\ pc = "pins_new"
    /\ Infallible("pins_new", "lcd_new")

LcdNew ==
    /\ pc = "lcd_new"
    /\ Fallible("lcd_new", "print")

LcdPrint ==
    /\ pc = "print"
    /\ LoopStep("print", "print", "hello world!")

LcdDelayAfterPrint ==
    /\ pc = "delay_after_print"
    /\ LoopStep("delay_after_print", "delay", LoopDelayUs)

LcdClear ==
    /\ pc = "clear"
    /\ LoopStep("clear", "clear", "none")

LcdDelayAfterClear ==
    /\ pc = "delay_after_clear"
    /\ LoopStep("delay_after_clear", "delay", LoopDelayUs)

SetupNext ==
    \/ TakePeripherals
    \/ TakeCorePeripherals
    \/ WatchdogNew
    \/ SioNew
    \/ InitClocksAndPlls
    \/ DelayNew
    \/ TimerNew
    \/ PinsNew
    \/ LcdNew

LoopNext ==
    \/ LcdPrint
    \/ LcdDelayAfterPrint
    \/ LcdClear
    \/ LcdDelayAfterClear

MainNext == SetupNext \/ LoopNext

\* main alone; the timer it builds is driven by the display driver, whose
\* calls Spec covers
MainSpec == Init /\ [][MainNext]_vars

\* main with every display call of the loop returning
MainLive == MainSpec /\ WF_vars(LoopNext)

----------------------------------------------------------------------------
\* Reading the call history

ZeroDuration == [secs |-> <<0, 0, 0, 0, 0, 0, 0, 0>>, nanos |-> 0]

MaxDuration == [secs |-> <<255, 255, 255, 255, 255, 255, 255, 255>>, nanos |-> 999999999]

Calls == 1..Len(calls)

\* The timer as call i found it
Before(i) == IF i = 1 THEN Timer_new(<<>>) ELSE calls[i - 1].self

StartsBefore(i) == { j \in 1..(i - 1) : calls[j].op = "start" }

MaxOf(S) == CHOOSE x \in S : \A y \in S : y <= x

\* The argument of the most recent start before call i, zero if there is none
LastStartArg(i) ==
    IF StartsBefore(i) = {} THEN ZeroDuration ELSE calls[MaxOf(StartsBefore(i))].arg

\* Call i is a start and call i + 1 the wait that follows it
StartThenWait(i) ==
    /\ i + 1 \in Calls
    /\ calls[i].op = "start"
    /\ calls[i + 1].op = "wait"

\* The delay requests call i issued
Requested(i) == SubSeq(calls[i].self.delay, Len(Before(i).delay) + 1, Len(calls[i].self.delay))

\* Call i only added requests to the delay handle's log
OnlyAdds(i) ==
    /\ Len(calls[i].self.delay) >= Len(Before(i).delay)
    /\ SubSeq(calls[i].self.delay, 1, Len(Before(i).delay)) = Before(i).delay

\* The whole microseconds of a duration of at most a second, in plain arithmetic
SmallMicros(d) == d.secs[1] * 1000000 + d.nanos \div 1000

----------------------------------------------------------------------------
\* Claims about the Timer, checked under Spec

\* C1: after any sequence of start, wait and cancel calls the stored duration is
\* the argument of the most recent start, or zero if start was never called;
\* this held after every call of the history too, so a repeated start(d) leaves
\* d and neither wait nor cancel changes the duration.
C1_DurationIsLastStart ==
    /\ timer.duration = LastStartArg(Len(calls) + 1)
    /\ \A i \in Calls : calls[i].self.duration = LastStartArg(i + 1)
    /\ \A i \in Calls : calls[i].op # "start" => calls[i].self.duration = Before(i).duration

C1_Witness ==
    /\ Len(calls) = 3
    /\ calls[1].op = "start" /\ calls[2].op = "start" /\ calls[3].op = "wait"
    /\ calls[1].arg = calls[2].arg
    /\ calls[1].arg = [secs |-> ToBytes(1, 8), nanos |-> 500000000]
    /\ timer.duration = calls[1].arg

\* C2: for a duration d below 2^32 microseconds, start(d) then wait() issues
\* exactly one delay request, whose value is d in whole microseconds truncated
\* toward zero (1500 ms gives 1,500,000; 1 s gives 1,000,000); start and cancel
\* issue no request and a new timer has issued none.
C2_WaitDelegatesMicros ==
    /\ calls = <<>> => timer.delay = <<>>
    /\ \A i \in Calls : calls[i].op \in {"start", "cancel"} => calls[i].self.delay = Before(i).delay
    /\ \A i \in Calls :
         (StartThenWait(i) /\ ~ExceedsU32(as_micros(calls[i].arg))) =>
            /\ OnlyAdds(i + 1)
            /\ Len(Requested(i + 1)) = 1
            /\ AsU128(Requested(i + 1)[1]) = as_micros(calls[i].arg)
            /\ calls[i].arg.secs \in {ToBytes(0, 8), ToBytes(1, 8)} =>
                 Requested(i + 1)[1] = ToBytes(SmallMicros(calls[i].arg), 4)
            /\ calls[i].arg = [secs |-> ToBytes(1, 8), nanos |-> 500000000] =>
                 Requested(i + 1)[1] = ToBytes(1500000, 4)
            /\ calls[i].arg = [secs |-> ToBytes(1, 8), nanos |-> 0] =>
                 Requested(i + 1)[1] = ToBytes(1000000, 4)
            /\ calls[i].arg = [secs |-> ToBytes(0, 8), nanos |-> 967295999] =>
                 Requested(i + 1)[1] = ToBytes(967295, 4)

C2_Witness ==
    /\ Len(calls) = 2
    /\ StartThenWait(1)
    /\ calls[1].arg = [secs |-> ToBytes(1, 8), nanos |-> 500000000]
    /\ timer.delay = <<ToBytes(1500000, 4)>>

\* C3: for a duration d of 2^32 microseconds or more, start(d) then wait()
\* returns success and requests the microsecond count modulo 2^32: the count is
\* the request plus a multiple of 2^32, and exactly 2^32 microseconds requests 0.
C3_WaitWraps ==
    \A i \in Calls :
        (StartThenWait(i) /\ ExceedsU32(as_micros(calls[i].arg))) =>
            /\ calls[i + 1].result = "Ok"
            /\ OnlyAdds(i + 1)
            /\ Len(Requested(i + 1)) = 1
            /\ Len(Requested(i + 1)[1]) = 4
            /\ as_micros(calls[i].arg) = Requested(i + 1)[1] \o SubSeq(as_micros(calls[i].arg), 5, 16)
            /\ calls[i].arg = [secs |-> ToBytes(4294, 8), nanos |-> 967296000] =>
                 Requested(i + 1)[1] = <<0, 0, 0, 0>>
            /\ calls[i].arg = [secs |-> ToBytes(4294, 8), nanos |-> 999999999] =>
                 Requested(i + 1)[1] = ToBytes(32703, 4)
            /\ calls[i].arg = MaxDuration => Requested(i + 1)[1] = U32Max

C3_Witness ==
    /\ Len(calls) = 2
    /\ StartThenWait(1)
    /\ calls[1].arg = [secs |-> ToBytes(4294, 8), nanos |-> 967296000]
    /\ calls[2].result = "Ok"
    /\ timer.delay = << <<0, 0, 0, 0>> >>

\* C4 as claimed: start stores every duration and the following wait requests
\* the full stored duration in microseconds, also above 2^32 microseconds.
C4_WaitRequestsFullDuration ==
    \A i \in Calls :
        StartThenWait(i) =>
            /\ calls[i].self.duration = calls[i].arg
            /\ Len(Requested(i + 1)) = 1
            /\ AsU128(Requested(i + 1)[1]) = as_micros(calls[i].arg)

\* C4 as amended: start stores every duration, however large, without error,
\* and the following wait requests the duration's microsecond count modulo 2^32,
\* which is the full count exactly when the count is below 2^32.
C4_WaitRequestsDurationMod2To32 ==
    /\ \A i \in Calls : calls[i].op = "start" =>
         /\ calls[i].result = "Unit"
         /\ calls[i].self.duration = calls[i].arg
    /\ \A i \in Calls :
         StartThenWait(i) =>
            /\ calls[i + 1].result = "Ok"
            /\ Len(Requested(i + 1)) = 1
            /\ Requested(i + 1)[1] = SubSeq(as_micros(calls[i].arg), 1, 4)
            /\ (AsU128(Requested(i + 1)[1]) = as_micros(calls[i].arg))
                 <=> ~ExceedsU32(as_micros(calls[i].arg))

C4_Witness ==
    /\ Len(calls) = 2
    /\ StartThenWait(1)
    /\ calls[1].arg = MaxDuration
    /\ timer.duration = MaxDuration
    /\ timer.delay = <<U32Max>>

\* C5: cancel, in any state, returns success, leaves duration, periodic and the
\* delay handle as they were (no delay request), and a wait right after it
\* requests the delay of the duration configured before the cancel.
C5_CancelIsNoOp ==
    \A i \in Calls :
        calls[i].op = "cancel" =>
            /\ calls[i].result = "Ok"
            /\ calls[i].self.duration = Before(i).duration
            /\ calls[i].self.periodic = Before(i).periodic
            /\ calls[i].self.delay = Before(i).delay
            /\ (i + 1 \in Calls /\ calls[i + 1].op = "wait") =>
                 /\ calls[i + 1].result = "Ok"
                 /\ calls[i + 1].self.delay =
                      Append(Before(i).delay, AsU32(as_micros(LastStartArg(i))))

C5_Witness ==
    /\ Len(calls) = 3
    /\ calls[1].op = "start" /\ calls[2].op = "cancel" /\ calls[3].op = "wait"
    /\ calls[1].arg = [secs |-> ToBytes(1, 8), nanos |-> 500000000]
    /\ calls[2].result = "Ok"
    /\ timer.duration = calls[1].arg
    /\ timer.delay = <<ToBytes(1500000, 4)>>

\* C6: wait returns success in every state and for every stored duration, zero
\* and the maximum included; it never returns an error or WouldBlock, and it is
\* never refused.
C6_WaitNeverFails ==
    /\ \A i \in Calls : calls[i].op = "wait" =>
         /\ calls[i].result = "Ok"
         /\ calls[i].result \notin {"WouldBlock", "Err"}
    /\ Len(calls) < MaxCalls => ENABLED wait

C6_Witness ==
    /\ Len(calls) = 3
    /\ calls[1].op = "wait" /\ calls[2].op = "start" /\ calls[3].op = "wait"
    /\ Before(1).duration = ZeroDuration
    /\ calls[2].arg = MaxDuration
    /\ calls[1].result = "Ok" /\ calls[3].result = "Ok"

\* C7: a new Timer has duration zero and periodic false, periodic is false in
\* every reachable state, and a wait before any start requests exactly 0
\* microseconds and returns success.
C7_NewTimerIsZero ==
    /\ calls = <<>> => (timer.duration = ZeroDuration /\ timer.periodic = FALSE)
    /\ timer.periodic = FALSE
    /\ \A i \in Calls : calls[i].self.periodic = FALSE
    /\ \A i \in Calls :
         (calls[i].op = "wait" /\ StartsBefore(i) = {}) =>
            /\ calls[i].result = "Ok"
            /\ OnlyAdds(i)
            /\ Requested(i) = << <<0, 0, 0, 0>> >>

C7_Witness ==
    /\ Len(calls) = 1
    /\ calls[1].op = "wait"
    /\ calls[1].result = "Ok"
    /\ timer.delay = << <<0, 0, 0, 0>> >>
    /\ timer.periodic = FALSE

----------------------------------------------------------------------------
\* Reading main's histories

LoopLabels == {"print", "delay_after_print", "clear", "delay_after_clear"}

InLoop == pc \in LoopLabels

\* The loop body as main.rs writes it: the call and its argument at each
\* statement, and the statement that follows
LoopBody ==
    << [at |-> "print",             op |-> "print", arg |-> "hello world!"],
       [at |-> "delay_after_print", op |-> "delay", arg |-> 1000000],
       [at |-> "clear",             op |-> "clear", arg |-> "none"],
       [at |-> "delay_after_clear", op |-> "delay", arg |-> 1000000] >>

\* The place in the loop body of the statement at label `at`
PlaceOf(at) == CHOOSE k \in 1..4 : LoopBody[k].at = at

\* The statement after the one at place k, cyclically
PlaceAfter(k) == (k % 4) + 1

\* Entry k of the display history is the call the loop body makes there
IsBodyCall(k) ==
    /\ issued[k].at \in LoopLabels
    /\ issued[k].op = LoopBody[PlaceOf(issued[k].at)].op
    /\ issued[k].op # "clear" => issued[k].arg = LoopBody[PlaceOf(issued[k].at)].arg

\* Entry k + 1 of the display history is the statement after entry k
Follows(k) == PlaceOf(issued[k + 1].at) = PlaceAfter(PlaceOf(issued[k].at))

LastIssued == issued[Len(issued)]

\* The setup steps in program order, and those whose result is unwrapped
SetupOrder ==
    << "take_pac", "take_core", "watchdog_new", "sio_new", "init_clocks",
       "delay_new", "timer_new", "pins_new", "lcd_new" >>

FallibleSteps == {"take_pac", "take_core", "init_clocks", "lcd_new"}

\* The display history is the loop body repeated: every entry is a call of the
\* body with its argument, each entry is followed by the next statement of the
\* cycle, the first call ever issued is the print (the history starts at it
\* until Window entries are kept), and main stands at the statement after the
\* last call
OrderOfIssued ==
    /\ \A k \in 1..Len(issued) : IsBodyCall(k)
    /\ \A k \in 1..(Len(issued) - 1) : Follows(k)
    /\ (issued # <<>> /\ Len(issued) < Window) => issued[1].at = "print"
    /\ (issued = <<>> /\ InLoop) => pc = "print"
    /\ issued # <<>> => (InLoop /\ PlaceOf(pc) = PlaceAfter(PlaceOf(LastIssued.at)))

----------------------------------------------------------------------------
\* Claims about main

\* C8: once setup has succeeded the loop issues print("hello world!"),
\* delay(1,000,000), clear(), delay(1,000,000) in this repeating order and no
\* other: every call is followed by the next of the cycle, the first is the
\* print, the loop is never left and always has its next call ready, and, each
\* call returning, print and clear are issued again and again. Checked under
\* MainLive.
C8_LoopOrderForever ==
    /\ [](OrderOfIssued /\ (InLoop => ENABLED LoopNext))
    /\ [][InLoop => InLoop']_vars
    /\ [](InLoop => []<>(issued # <<>> /\ LastIssued.op = "print"))
    /\ [](InLoop => []<>(issued # <<>> /\ LastIssued.op = "clear"))

C8_Witness ==
    /\ Len(issued) = Window
    /\ issued[1].at = "delay_after_print"
    /\ issued[2].at = "clear"
    /\ issued[3].at = "delay_after_clear"
    /\ issued[4].at = "print"
    /\ issued[5].at = "delay_after_print"
    /\ pc = "clear"

\* C9: a failure result of print, clear or delay inside the loop is dropped:
\* whatever a display call returned, the call after it in the history is the
\* next statement of the cycle (never the same call again), main is still in
\* the loop with the next statement ready, and main has not halted. Checked
\* under MainSpec.
C9_LoopDiscardsFailures ==
    /\ \A k \in 1..Len(issued) :
         /\ issued[k].result \in Outcomes
         /\ k < Len(issued) =>
              /\ Follows(k)
              /\ issued[k + 1].at # issued[k].at
    /\ issued # <<>> =>
         /\ pc # "panicked"
         /\ InLoop
         /\ pc = LoopBody[PlaceAfter(PlaceOf(LastIssued.at))].at
         /\ ENABLED LoopNext

C9_Witness ==
    /\ Len(issued) = 4
    /\ issued[1].op = "print" /\ issued[1].result = "Err"
    /\ issued[2].op = "delay" /\ issued[2].result = "Err"
    /\ issued[3].op = "clear" /\ issued[3].result = "Err"
    /\ issued[4].op = "delay" /\ issued[4].result = "Ok"
    /\ pc = "print"

\* C10: a failure of a fallible setup step (taking the peripherals, taking the
\* core peripherals, initialising clocks and PLLs, constructing the display
\* driver) halts main at that step: it is the last step run, no display call is
\* ever issued and nothing more can happen; setup steps run in program order,
\* and the loop is reached only after all of them, the four fallible ones
\* having succeeded. Checked under MainSpec.
C10_SetupFailureHalts ==
    /\ Len(setup) <= Len(SetupOrder)
    /\ \A k \in 1..Len(setup) : setup[k].step = SetupOrder[k]
    /\ \A k \in 1..Len(setup) :
         setup[k].result # "Ok" =>
            /\ setup[k].step \in FallibleSteps
            /\ k = Len(setup)
            /\ pc = "panicked"
    /\ pc = "panicked" =>
         /\ setup # <<>>
         /\ setup[Len(setup)].result = "Err"
         /\ issued = <<>>
         /\ ~ENABLED MainNext
    /\ (InLoop \/ issued # <<>>) =>
         /\ Len(setup) = Len(SetupOrder)
         /\ \A k \in 1..Len(setup) : setup[k].result = "Ok"
    /\ (pc # "panicked" /\ ~InLoop) => (Len(setup) < Len(SetupOrder) /\ pc = SetupOrder[Len(setup) + 1])

C10_Witness ==
    /\ pc = "panicked"
    /\ Len(setup) = 5
    /\ setup[5].step = "init_clocks"
    /\ setup[5].result = "Err"
    /\ issued = <<>>

====
